---- MODULE Spec2Model ----
(***************************************************************************)
(* The status line formatter of rahmen (src/src/provider.rs).              *)
(*                                                                         *)
(* A string is a sequence of one-character strings.  A regular expression  *)
(* is modelled on the literal fragment: a pattern is a sequence of         *)
(* characters that matches itself; a pattern holding an unclosed "(" does  *)
(* not compile.  The case conventions are the four of convert_case that    *)
(* the configurations below use: Upper, Lower, Title and Snake.            *)
(***************************************************************************)
EXTENDS Integers, Sequences, FiniteSets, TLC

VARIABLES
    formatter,   \* the StatusLineFormatter, once constructed
    newResult,   \* what StatusLineFormatter::new returned: "none", "ok", or the error
    gil,         \* the holder of the Python interpreter lock (0: free)
    call         \* per thread: the position and the locals of its format call

vars == <<formatter, newResult, gil, call>>

\* ------------------------------------------------------------- bounds

MaxElements == 3       \* elements of a formatter without a hook
MaxHookElements == 2   \* elements of a formatter with a hook
NumThreads == 2        \* threads sharing one formatter

Threads == 1..NumThreads

\* ------------------------------------------------------------ strings

UpperChars == <<"A", "B", "C", "D", "E", "F", "G", "H", "I", "J", "K", "L", "M",
                "N", "O", "P", "Q", "R", "S", "T", "U", "V", "W", "X", "Y", "Z">>
LowerChars == <<"a", "b", "c", "d", "e", "f", "g", "h", "i", "j", "k", "l", "m",
                "n", "o", "p", "q", "r", "s", "t", "u", "v", "w", "x", "y", "z">>

LowerOf == [c \in {UpperChars[i] : i \in 1..26} |->
                LowerChars[CHOOSE i \in 1..26 : UpperChars[i] = c]]
UpperOf == [c \in {LowerChars[i] : i \in 1..26} |->
                UpperChars[CHOOSE i \in 1..26 : LowerChars[i] = c]]

ToLowerChar(c) == IF c \in DOMAIN LowerOf THEN LowerOf[c] ELSE c
ToUpperChar(c) == IF c \in DOMAIN UpperOf THEN UpperOf[c] ELSE c

ToLower(s) == [i \in 1..Len(s) |-> ToLowerChar(s[i])]
ToUpper(s) == [i \in 1..Len(s) |-> ToUpperChar(s[i])]

\* s starts with p at position i
MatchesAt(s, p, i) ==
    /\ i + Len(p) - 1 <= Len(s)
    /\ \A k \in 1..Len(p) : s[i + k - 1] = p[k]

\* str::split on one delimiter character: the pieces, empty ones included
RECURSIVE SplitOn(_, _)
SplitOn(s, delims) ==
    IF \A i \in 1..Len(s) : s[i] \notin delims
    THEN <<s>>
    ELSE LET i == CHOOSE k \in 1..Len(s) :
                      /\ s[k] \in delims
                      /\ \A j \in 1..(k - 1) : s[j] \notin delims
         IN <<SubSeq(s, 1, i - 1)>> \o SplitOn(SubSeq(s, i + 1, Len(s)), delims)

DropEmpty(ws) == SelectSeq(ws, LAMBDA w : w # <<>>)

\* itertools join: the first item, then the separator before every other
RECURSIVE JoinRest(_, _)
JoinRest(items, sep) ==
    IF items = <<>> THEN <<>>
    ELSE sep \o Head(items) \o JoinRest(Tail(items), sep)

\* faulty variant: the separator before every item, the first included
JoinLeadingSep(items, sep) == JoinRest(items, sep)

Join(items, sep) ==
    IF items = <<>> THEN <<>>
    ELSE Head(items) \o JoinRest(Tail(items), sep)

\* ------------------------------------------------------ Case Converter

AllCases == <<"Upper", "Lower", "Title", "Snake">>

CaseDebugName(case) ==
    CASE case = "Upper" -> <<"U", "p", "p", "e", "r">>
      [] case = "Lower" -> <<"L", "o", "w", "e", "r">>
      [] case = "Title" -> <<"T", "i", "t", "l", "e">>
      [] case = "Snake" -> <<"S", "n", "a", "k", "e">>

\* to_case(Case::Flat): the words of the name, lower-cased, joined by nothing
ToFlat(s) == ToLower(SelectSeq(s, LAMBDA c : c \notin {" ", "-", "_"}))

CaseUnknown == "CaseUnknown"

\* format!("{:?}", case).to_case(Case::Flat) of every case
FlatCaseNames == [i \in 1..Len(AllCases) |-> ToFlat(CaseDebugName(AllCases[i]))]

\* the first case whose flat Debug name is the flat name, or CaseUnknown
StrToCase(s) ==
    LET flat == ToFlat(s)
        hits == {i \in 1..Len(AllCases) : FlatCaseNames[i] = flat}
    IN IF hits = {} THEN CaseUnknown
       ELSE AllCases[CHOOSE i \in hits : \A j \in hits : i <= j]

\* from_case: the words of the input under a convention
WordsFrom(s, case) ==
    IF case = "Snake" THEN DropEmpty(SplitOn(s, {"_"}))
    ELSE DropEmpty(SplitOn(s, {" "}))

CapitalizeWord(w) ==
    IF w = <<>> THEN <<>>
    ELSE <<ToUpperChar(w[1])>> \o ToLower(SubSeq(w, 2, Len(w)))

MapWords(ws, case) ==
    [i \in 1..Len(ws) |->
        CASE case = "Upper" -> ToUpper(ws[i])
          [] case = "Title" -> CapitalizeWord(ws[i])
          [] OTHER -> ToLower(ws[i])]

\* to_case: the words re-rendered under a convention
ToCase(ws, case) ==
    Join(MapWords(ws, case), IF case = "Snake" THEN <<"_">> ELSE <<" ">>)

\* ------------------------------------------------------ Transformation

RegexCompiles(pattern) == \A i \in 1..Len(pattern) : pattern[i] # "("

\* Regex::replace_all of a literal pattern by a replacement without "$":
\* leftmost non-overlapping matches; the empty pattern matches at every position
RECURSIVE ReplaceAll(_, _, _)
ReplaceAll(s, pattern, replacement) ==
    IF pattern = <<>>
    THEN replacement \o (IF s = <<>> THEN <<>>
                         ELSE <<Head(s)>> \o ReplaceAll(Tail(s), pattern, replacement))
    ELSE IF s = <<>> THEN s
    ELSE IF MatchesAt(s, pattern, 1)
         THEN replacement \o ReplaceAll(SubSeq(s, Len(pattern) + 1, Len(s)), pattern, replacement)
         ELSE <<Head(s)>> \o ReplaceAll(Tail(s), pattern, replacement)

RegexReplace(re, replacement) == [kind |-> "RegexReplace", re |-> re, replacement |-> replacement, from |-> "", to |-> ""]
Capitalize == [kind |-> "Capitalize", re |-> <<>>, replacement |-> <<>>, from |-> "", to |-> ""]
ChangeCase(f, t) == [kind |-> "ChangeCase", re |-> <<>>, replacement |-> <<>>, from |-> f, to |-> t]

Transform(t, input) ==
    CASE t.kind = "RegexReplace" -> ReplaceAll(input, t.re, t.replacement)
      [] t.kind = "Capitalize" -> ToCase(WordsFrom(input, "Upper"), "Title")
      [] t.kind = "ChangeCase" -> ToCase(WordsFrom(input, t.from), t.to)

\* ------------------------------------------------------- configuration

None == [some |-> FALSE, v |-> <<>>]
Some(x) == [some |-> TRUE, v |-> x]

Ok(x) == [ok |-> TRUE, val |-> x]
Err(e) == [ok |-> FALSE, val |-> e]

\* crate::config::Replacement and crate::config::Element, as provider.rs reads them
Replacement(regex, replace) == [regex |-> regex, replace |-> replace]
Element(tags, conv, cap, repl) ==
    [exif_tags |-> tags, case_conversion |-> conv, capitalize |-> cap, replace |-> repl]

LineSettings(sep, uniq, hide) == [separator |-> sep, uniquify |-> uniq, hide_empty |-> hide]

\* TryFrom<Replacement> for StatusLineTransformation
TryFromReplacement(value) ==
    IF RegexCompiles(value.regex)
    THEN Ok(RegexReplace(value.regex, value.replace))
    ELSE Err("Regex")

\* the regex loop of TryFrom<Element>: the first pattern that fails ends it
RECURSIVE PushReplacements(_, _)
PushReplacements(transformations, replaces) ==
    IF replaces = <<>> THEN Ok(transformations)
    ELSE IF RegexCompiles(Head(replaces).regex)
         THEN PushReplacements(
                  Append(transformations,
                         RegexReplace(Head(replaces).regex, Head(replaces).replace)),
                  Tail(replaces))
         ELSE Err("Regex")

\* TryFrom<Element> for StatusLineElement
TryFromElement(value) ==
    LET conv == value.case_conversion
        from == StrToCase(conv.v.from)
        to == StrToCase(conv.v.to)
        t1 == IF conv.some THEN <<ChangeCase(from, to)>> ELSE <<>>
        t2 == IF value.capitalize.some /\ value.capitalize.v
              THEN Append(t1, Capitalize) ELSE t1
        t3 == PushReplacements(t2, IF value.replace.some THEN value.replace.v ELSE <<>>)
    IN IF conv.some /\ from = CaseUnknown THEN Err(CaseUnknown)
       ELSE IF conv.some /\ to = CaseUnknown THEN Err(CaseUnknown)
       ELSE IF ~t3.ok THEN t3
       ELSE Ok([transformations |-> t3.val, tags |-> value.exif_tags])

\* a try_into()? loop of StatusLineFormatter::new: the first error ends it
RECURSIVE TryCollect(_, _, _)
TryCollect(acc, items, kind) ==
    IF items = <<>> THEN Ok(acc)
    ELSE LET r == IF kind = "element" THEN TryFromElement(Head(items))
                  ELSE TryFromReplacement(Head(items))
         IN IF r.ok THEN TryCollect(Append(acc, r.val), Tail(items), kind) ELSE r

\* The modules a configuration may name.  py.import fails for a module that
\* does not exist; export() of the others returns the callable named here.
PyModules == {"split", "dups", "raise", "badtype"}

PyImportExport(path) == IF path \in PyModules THEN Ok(path) ELSE Err("Python")

\* StatusLineFormatter::new
NewFormatter(cfg) ==
    LET elements == TryCollect(<<>>, cfg.elements, "element")
        line_transformations == TryCollect(<<>>, cfg.line_transformations, "replacement")
        py == IF cfg.py_postprocess.some
              THEN PyImportExport(cfg.py_postprocess.v) ELSE Ok("")
    IN IF ~elements.ok THEN elements
       ELSE IF ~line_transformations.ok THEN line_transformations
       ELSE IF ~py.ok THEN py
       ELSE Ok([elements |-> elements.val,
                line_transformations |-> line_transformations.val,
                line_settings |-> cfg.line_settings,
                py_postprocess_fn |-> IF cfg.py_postprocess.some
                                      THEN Some(py.val) ELSE [some |-> FALSE, v |-> ""]])

\* ------------------------------------------------------ Element Resolver

\* metadata.get_tag_interpreted_string(f).ok() for every tag, in order
TagValues(tags, metadata) == [i \in 1..Len(tags) |-> metadata[tags[i]]]

\* faulty variant: the last present tag wins
FindLastSome(opts) ==
    IF \E i \in 1..Len(opts) : opts[i].some
    THEN opts[CHOOSE i \in 1..Len(opts) :
                  /\ opts[i].some
                  /\ \A j \in (i + 1)..Len(opts) : ~opts[j].some]
    ELSE [some |-> FALSE, v |-> <<>>]

\* Iterator::find(Option::is_some).flatten()
FindFirstSome(opts) ==
    IF \E i \in 1..Len(opts) : opts[i].some
    THEN opts[CHOOSE i \in 1..Len(opts) :
                  /\ opts[i].some
                  /\ \A j \in 1..(i - 1) : ~opts[j].some]
    ELSE None

\* for transformation in &self.transformations { value = transformation.transform(value) }
RECURSIVE ApplyAll(_, _)
ApplyAll(transformations, value) ==
    IF transformations = <<>> THEN value
    ELSE ApplyAll(Tail(transformations), Transform(Head(transformations), value))

\* StatusLineElement::process
Process(element, metadata) ==
    LET found == FindFirstSome(TagValues(element.tags, metadata))
    IN IF found.some THEN Some(ApplyAll(element.transformations, found.v)) ELSE None

\* ------------------------------------------------------- Line Assembler

\* faulty variant: a missing element never gets a placeholder
SlotDropMissing(value, hide_empty) == IF value.some THEN <<value.v>> ELSE <<>>

\* the flat_map closure of format: what one element adds to element_iter
Slot(value, hide_empty) ==
    IF value.some THEN <<value.v>>
    ELSE IF hide_empty THEN <<>>
    ELSE <<<<>>>>

RECURSIVE FlatMap(_, _)
FlatMap(values, hide_empty) ==
    IF values = <<>> THEN <<>>
    ELSE Slot(Head(values), hide_empty) \o FlatMap(Tail(values), hide_empty)

\* faulty variant: the filter is forgotten
FilterNothing(items) == items

\* .filter(|x| !x.is_empty())
FilterNonEmpty(items) == SelectSeq(items, LAMBDA x : Len(x) # 0)

\* itertools unique(): an item passes the first time it is seen
RECURSIVE UniqueFrom(_, _)
UniqueFrom(items, seen) ==
    IF items = <<>> THEN <<>>
    ELSE IF Head(items) \in seen THEN UniqueFrom(Tail(items), seen)
    ELSE <<Head(items)>> \o UniqueFrom(Tail(items), seen \cup {Head(items)})

\* faulty variant: dedup() in place of unique(): only neighbouring duplicates go
RECURSIVE DedupAdjacent(_)
DedupAdjacent(items) ==
    IF Len(items) < 2 THEN items
    ELSE IF items[1] = items[2] THEN DedupAdjacent(Tail(items))
    ELSE <<Head(items)>> \o DedupAdjacent(Tail(items))

Unique(items) == UniqueFrom(items, {})

\* the match on (hide_empty, uniquify): the items handed to join
Tokens(hide_empty, uniquify, element_iter) ==
    CASE hide_empty /\ uniquify -> Unique(FilterNonEmpty(element_iter))
      [] ~hide_empty /\ ~uniquify -> element_iter
      [] hide_empty /\ ~uniquify -> FilterNonEmpty(element_iter)
      [] ~hide_empty /\ uniquify -> Unique(element_iter)

\* .fold(status_line, |sl, t| t.transform(sl))
LineTransform(line_transformations, status_line) ==
    ApplyAll(line_transformations, status_line)

\* str.split(sep) of the scripting runtime, for a non-empty sep
RECURSIVE SplitBy(_, _)
SplitBy(s, sep) ==
    IF \A i \in 1..Len(s) : ~MatchesAt(s, sep, i)
    THEN <<s>>
    ELSE LET i == CHOOSE k \in 1..Len(s) :
                      /\ MatchesAt(s, sep, k)
                      /\ \A j \in 1..(k - 1) : ~MatchesAt(s, sep, j)
         IN <<SubSeq(s, 1, i - 1)>> \o SplitBy(SubSeq(s, i + Len(sep), Len(s)), sep)

\* StatusLineFormatter::postprocess: code.call1(py, (input, separator))?.extract(py)
Postprocess(code, input, separator) ==
    CASE code = "split" -> IF separator = <<>> THEN Err("Python")
                           ELSE Ok(SplitBy(input, separator))
      [] code = "dups" -> Ok(<<input, <<>>, input>>)
      [] code = "raise" -> Err("Python")
      [] code = "badtype" -> Err("Python")

\* faulty variant: the empty strings of the hook's list are kept
AfterHookKeepEmpty(list, separator) == Join(Unique(list), separator)

\* the tail of format after the hook returned a list
AfterHook(list, separator) == Join(Unique(FilterNonEmpty(list)), separator)

\* ---------------------------------------------------------------- inputs

Tags == {"City", "ProvinceState"}

\* the interpreted values a tag may hold
TagStrings == {<<>>, <<"A", "B">>, <<"A", " ", "B">>}

\* a metadata record: for every tag its value, or None when the file lacks it
MetadataRecords == [Tags -> {None} \cup {Some(v) : v \in TagStrings}]

NoMetadata == [t \in Tags |-> None]

\* what Metadata::new_from_path returns
MetadataResults == {Ok(m) : m \in MetadataRecords} \cup {Err("Rexiv2")}

EStrip ==
    Element(<<"City">>, None, Some(FALSE),
            Some(<<Replacement(<<"A", "B">>, <<>>)>>))
EChain ==
    Element(<<"ProvinceState", "City">>,
            Some([from |-> <<"U", "P", "P", "E", "R">>, to |-> <<"s", "n", "a", "k", "e">>]),
            Some(TRUE),
            Some(<<Replacement(<<"_">>, <<" ">>), Replacement(<<" ", "b">>, <<"|">>)>>))
ENoTags == Element(<<>>, None, None, None)
EBadRegex == Element(<<"City">>, None, None, Some(<<Replacement(<<"(", "a">>, <<>>)>>))
EBadCase ==
    Element(<<"City">>,
            Some([from |-> <<"t", "i", "t", "l", "e">>, to |-> <<"b", "o", "g", "u", "s">>]),
            None, None)

\* the elements TryFrom<Element> accepts, and all the elements tried
AcceptedElements == {EStrip, EChain, ENoTags}
ElementChoices == AcceptedElements \cup {EBadRegex, EBadCase}

SeqsUpTo(S, n) == UNION {[1..k -> S] : k \in 0..n}

Separators == {<<"|">>, <<" ", "|", " ">>}

AcceptedLineTransformations == {<<>>, <<Replacement(<<"|">>, <<"|", "|">>)>>}
LineTransformationChoices ==
    AcceptedLineTransformations \cup {<<Replacement(<<"(">>, <<>>)>>}

PyChoices == {None} \cup {Some(m) : m \in PyModules \cup {"missing"}}

Config(elements, line_transformations, py_postprocess, line_settings) ==
    [elements |-> elements, line_transformations |-> line_transformations,
     py_postprocess |-> py_postprocess, line_settings |-> line_settings]

AllLineSettings ==
    {LineSettings(sep, u, h) : sep \in Separators, u \in BOOLEAN, h \in BOOLEAN}

\* the configurations explored: without a hook; with a hook, on shorter lists;
\* and those whose construction may fail
Configs ==
    {Config(es, lt, None, ls) :
        es \in SeqsUpTo(AcceptedElements, MaxElements),
        lt \in AcceptedLineTransformations,
        ls \in AllLineSettings}
    \cup
    {Config(es, lt, Some(py), ls) :
        es \in SeqsUpTo(AcceptedElements, MaxHookElements),
        lt \in AcceptedLineTransformations,
        py \in PyModules,
        ls \in AllLineSettings}
    \cup
    {Config(es, lt, py, LineSettings(<<"|">>, FALSE, FALSE)) :
        es \in SeqsUpTo(ElementChoices, MaxHookElements),
        lt \in LineTransformationChoices,
        py \in PyChoices}

\* the configurations and the files of the concurrent runs
ConcConfigs ==
    {Config(<<EStrip, EChain>>, <<>>, py, LineSettings(<<"|">>, b, b)) :
        py \in {None, Some("split"), Some("dups"), Some("raise")}, b \in BOOLEAN}

ConcMetadataResults ==
    {Ok([NoMetadata EXCEPT !["City"] = Some(<<"A", "B">>)]),
     Ok([t \in Tags |-> Some(<<"A", " ", "B">>)]),
     Err("Rexiv2")}

\* --------------------------------------------------------- state machine

NoFormatter == [elements |-> <<>>, line_transformations |-> <<>>,
                line_settings |-> LineSettings(<<>>, FALSE, FALSE),
                py_postprocess_fn |-> [some |-> FALSE, v |-> ""]]

Idle == [pc |-> "idle", md |-> Err("none"), resolved |-> <<>>, slots |-> <<>>,
         tokens |-> <<>>, assembled |-> <<>>, line |-> <<>>, hookCalls |-> 0,
         hookArgs |-> <<>>, hookRet |-> Err("none"), result |-> None]

Init ==
    /\ formatter = NoFormatter
    /\ newResult = "none"
    /\ gil = 0
    /\ call = [t \in Threads |-> Idle]

\* StatusLineFormatter::new on a configuration
New(cfg) ==
    /\ newResult = "none"
    /\ LET r == NewFormatter(cfg)
       IN /\ newResult' = IF r.ok THEN "ok" ELSE r.val
          /\ formatter' = IF r.ok THEN r.val ELSE NoFormatter
    /\ UNCHANGED <<gil, call>>

\* element.process(&metadata) for every element, in order
Resolve(elements, metadata) ==
    [i \in 1..Len(elements) |-> Process(elements[i], metadata)]

\* format up to the hook: the metadata, the elements, the join, the line transformations
FormatLocals(fmt, r) ==
    LET metadata == r.val
        resolved == Resolve(fmt.elements, metadata)
        slots == FlatMap(resolved, fmt.line_settings.hide_empty)
        tokens == Tokens(fmt.line_settings.hide_empty, fmt.line_settings.uniquify, slots)
        assembled == Join(tokens, fmt.line_settings.separator)
    IN [Idle EXCEPT !.md = r, !.resolved = resolved, !.slots = slots,
                    !.tokens = tokens, !.assembled = assembled,
                    !.line = LineTransform(fmt.line_transformations, assembled)]

\* faulty variant: a metadata error is taken for a file without tags
FormatStartNoCheck(t, r) ==
    /\ newResult = "ok"
    /\ call[t].pc = "idle"
    /\ LET c == [FormatLocals(formatter, Ok(NoMetadata)) EXCEPT !.md = r]
       IN IF formatter.py_postprocess_fn.some
          THEN call' = [call EXCEPT ![t] = [c EXCEPT !.pc = "wait_gil"]]
          ELSE call' = [call EXCEPT ![t] = [c EXCEPT !.pc = "ok", !.result = Some(c.line)]]
    /\ UNCHANGED <<formatter, newResult, gil>>

\* format, from its call to its return or to the hook
FormatStart(t, r) ==
    /\ newResult = "ok"
    /\ call[t].pc = "idle"
    /\ IF ~r.ok
       THEN call' = [call EXCEPT ![t] = [Idle EXCEPT !.pc = "err", !.md = r]]
       ELSE LET c == FormatLocals(formatter, r)
            IN IF formatter.py_postprocess_fn.some
               THEN call' = [call EXCEPT ![t] = [c EXCEPT !.pc = "wait_gil"]]
               ELSE call' = [call EXCEPT ![t] = [c EXCEPT !.pc = "ok", !.result = Some(c.line)]]
    /\ UNCHANGED <<formatter, newResult, gil>>

\* faulty variant: the hook is entered without waiting for the lock
AcquireGilNoWait(t) ==
    /\ call[t].pc = "wait_gil"
    /\ gil' = t
    /\ call' = [call EXCEPT ![t].pc = "in_hook"]
    /\ UNCHANGED <<formatter, newResult>>

\* Python::with_gil: the thread takes the interpreter lock
AcquireGil(t) ==
    /\ call[t].pc = "wait_gil"
    /\ gil = 0
    /\ gil' = t
    /\ call' = [call EXCEPT ![t].pc = "in_hook"]
    /\ UNCHANGED <<formatter, newResult>>

\* what format does with the Result of postprocess: .unwrap(), then filter, unique, join
HookOutcome(c, ret, separator) ==
    IF ret.ok
    THEN [c EXCEPT !.pc = "ok", !.result = Some(AfterHook(ret.val, separator))]
    ELSE [c EXCEPT !.pc = "panic"]

\* the hook runs under the lock, the lock is released, format ends
HookReturn(t) ==
    /\ call[t].pc = "in_hook"
    /\ LET sep == formatter.line_settings.separator
           ret == Postprocess(formatter.py_postprocess_fn.v, call[t].line, sep)
           c == [call[t] EXCEPT !.hookCalls = @ + 1,
                                !.hookArgs = <<call[t].line, sep>>,
                                !.hookRet = ret]
       IN call' = [call EXCEPT ![t] = HookOutcome(c, ret, sep)]
    /\ gil' = 0
    /\ UNCHANGED <<formatter, newResult>>

\* the caller takes the result; the thread may call format again
Return(t) ==
    /\ call[t].pc \in {"ok", "err"}
    /\ call' = [call EXCEPT ![t] = Idle]
    /\ UNCHANGED <<formatter, newResult, gil>>

Next ==
    \/ newResult = "none" /\ \E cfg \in Configs : New(cfg)
    \/ \E r \in MetadataResults : FormatStart(1, r)
    \/ AcquireGil(1)
    \/ HookReturn(1)
    \/ Return(1)

Spec == Init /\ [][Next]_vars

\* several threads call format on one shared formatter
NextConc ==
    \/ newResult = "none" /\ \E cfg \in ConcConfigs : New(cfg)
    \/ \E t \in Threads :
          \/ \E r \in ConcMetadataResults : FormatStart(t, r)
          \/ AcquireGil(t)
          \/ HookReturn(t)
          \/ Return(t)

SpecConc == Init /\ [][NextConc]_vars

\* ---------------------------------------------------------------- claims
\* The reference operators below state what the specification describes; they
\* are written without the operators that model the code.

\* the calls whose join has happened
Assembled(t) == call[t].pc \in {"wait_gil", "in_hook", "ok", "panic"}

Settings == formatter.line_settings

RefNonEmpty(items) == SelectSeq(items, LAMBDA x : x # <<>>)

Front(items) == SubSeq(items, 1, Len(items) - 1)
Last(items) == items[Len(items)]

\* the items without their later duplicates
RECURSIVE RefDedup(_)
RefDedup(items) ==
    IF items = <<>> THEN <<>>
    ELSE IF \E i \in 1..(Len(items) - 1) : items[i] = Last(items)
         THEN RefDedup(Front(items))
         ELSE Append(RefDedup(Front(items)), Last(items))

RECURSIVE RefJoin(_, _)
RefJoin(items, sep) ==
    IF items = <<>> THEN <<>>
    ELSE IF Len(items) = 1 THEN items[1]
    ELSE RefJoin(Front(items), sep) \o sep \o Last(items)

RECURSIVE RefApply(_, _)
RefApply(transformations, value) ==
    IF transformations = <<>> THEN value
    ELSE Transform(Last(transformations), RefApply(Front(transformations), value))

RECURSIVE TotalLen(_)
TotalLen(items) == IF items = <<>> THEN 0 ELSE Len(Head(items)) + TotalLen(Tail(items))

\* the occurrences of a non-empty p in s, counted left to right without overlap
RECURSIVE CountOcc(_, _)
CountOcc(s, p) ==
    IF Len(s) < Len(p) THEN 0
    ELSE IF SubSeq(s, 1, Len(p)) = p THEN 1 + CountOcc(SubSeq(s, Len(p) + 1, Len(s)), p)
    ELSE CountOcc(Tail(s), p)

CharsOf(s) == {s[i] : i \in 1..Len(s)}
Values(items) == {items[i] : i \in 1..Len(items)}
FirstIndex(items, x) == CHOOSE i \in 1..Len(items) :
                            items[i] = x /\ \A j \in 1..(i - 1) : items[j] # x

\* the values the elements resolved to, in element order, a missing one as ""
ResolvedValues(t) ==
    [i \in 1..Len(call[t].resolved) |->
        IF call[t].resolved[i].some THEN call[t].resolved[i].v ELSE <<>>]

\* C1 (as claimed): with hide_empty false, for either value of uniquify, the
\* sequence handed to the join has as many tokens as there are Elements.
C1_AsClaimed ==
    \A t \in Threads :
        (Assembled(t) /\ ~Settings.hide_empty)
            => Len(call[t].tokens) = Len(formatter.elements)

\* C1 (amended): with hide_empty false every Element fills one slot, found or
\* not; the join receives all the slots when uniquify is false, and one token
\* per distinct slot value when uniquify is true.
C1_SlotPerElement ==
    \A t \in Threads :
        (Assembled(t) /\ ~Settings.hide_empty)
            => /\ Len(call[t].slots) = Len(formatter.elements)
               /\ \A i \in 1..Len(call[t].slots) : call[t].slots[i] = ResolvedValues(t)[i]
               /\ ~Settings.uniquify => Len(call[t].tokens) = Len(formatter.elements)
               /\ Settings.uniquify
                    => Len(call[t].tokens) = Cardinality(Values(call[t].slots))

C1_Witness ==
    \E t \in Threads :
        /\ Assembled(t) /\ ~Settings.hide_empty /\ ~Settings.uniquify
        /\ Len(formatter.elements) = 3
        /\ \E i, j \in 1..3 : call[t].resolved[i].some /\ ~call[t].resolved[j].some
        /\ Len(call[t].tokens) = 3

\* C2 (as claimed): for every combination the number of occurrences of the
\* separator in the output of format is the number of joined tokens minus one.
C2_AsClaimed ==
    \A t \in Threads :
        (call[t].pc = "ok" /\ call[t].result.some /\ Settings.separator # <<>>)
            => CountOcc(call[t].result.v, Settings.separator) = Len(call[t].tokens) - 1

\* C2 (amended): the joined line is empty when no token is left and otherwise
\* holds one separator between neighbours: its length is the tokens' length
\* plus (tokens - 1) separators, and when no token holds a character of the
\* (non-empty) separator the separator occurs in it exactly (tokens - 1) times,
\* counted left to right without overlap.
C2_SeparatorCount ==
    \A t \in Threads :
        Assembled(t)
            => LET toks == call[t].tokens
                   sep == Settings.separator
                   line == call[t].assembled
               IN /\ toks = <<>> => line = <<>>
                  /\ toks # <<>>
                       => Len(line) = TotalLen(toks) + (Len(toks) - 1) * Len(sep)
                  /\ (/\ toks # <<>>
                      /\ sep # <<>>
                      /\ \A i \in 1..Len(toks) : CharsOf(toks[i]) \cap CharsOf(sep) = {})
                       => CountOcc(line, sep) = Len(toks) - 1

C2_Witness ==
    \E t \in Threads :
        /\ Assembled(t)
        /\ Len(call[t].tokens) = 3
        /\ \A i \in 1..3 : CharsOf(call[t].tokens[i]) \cap CharsOf(Settings.separator) = {}
        /\ \E i \in 1..3 : call[t].tokens[i] # <<>>
        /\ CountOcc(call[t].assembled, Settings.separator) = 2

\* C3 (as claimed): with hide_empty true, for either value of uniquify, the
\* assembled line is the join of exactly the non-empty resolved values.
C3_AsClaimed ==
    \A t \in Threads :
        (Assembled(t) /\ Settings.hide_empty)
            => call[t].assembled
                 = RefJoin(RefNonEmpty(ResolvedValues(t)), Settings.separator)

\* C3 (amended): with hide_empty true a missing Element adds neither a token
\* nor a separator: the assembled line is the join of the non-empty resolved
\* values in Element order, less their later duplicates when uniquify is true.
C3_HideEmpty ==
    \A t \in Threads :
        (Assembled(t) /\ Settings.hide_empty)
            => LET kept == RefNonEmpty(ResolvedValues(t))
               IN /\ call[t].assembled
                       = RefJoin(IF Settings.uniquify THEN RefDedup(kept) ELSE kept,
                                 Settings.separator)
                  /\ \A i \in 1..Len(call[t].tokens) : call[t].tokens[i] # <<>>
                  /\ (/\ Len(call[t].resolved) = 2
                      /\ ~call[t].resolved[1].some
                      /\ call[t].resolved[2].some)
                       => call[t].assembled = call[t].resolved[2].v

C3_Witness ==
    \E t \in Threads :
        /\ Assembled(t) /\ Settings.hide_empty
        /\ Len(call[t].resolved) = 2
        /\ ~call[t].resolved[1].some
        /\ call[t].resolved[2].some /\ call[t].resolved[2].v # <<>>
        /\ call[t].assembled = call[t].resolved[2].v

\* C4: with uniquify true the joined tokens hold no string twice, hold exactly
\* the strings of the sequence before deduplication, and stand in the order of
\* their first occurrence there; the empty placeholder is kept once when
\* hide_empty is false, and empties are removed first when it is true.
C4_Uniquify ==
    \A t \in Threads :
        (Assembled(t) /\ Settings.uniquify)
            => LET toks == call[t].tokens
                   before == IF Settings.hide_empty
                             THEN RefNonEmpty(call[t].slots) ELSE call[t].slots
               IN /\ \A i, j \in 1..Len(toks) : toks[i] = toks[j] => i = j
                  /\ Values(toks) = Values(before)
                  /\ \A i, j \in 1..Len(toks) :
                        i < j => FirstIndex(before, toks[i]) < FirstIndex(before, toks[j])
                  /\ Settings.hide_empty => <<>> \notin Values(toks)
                  /\ (~Settings.hide_empty /\ <<>> \in Values(call[t].slots))
                       => <<>> \in Values(toks)

C4_Witness ==
    \E t \in Threads :
        /\ Assembled(t) /\ Settings.uniquify /\ ~Settings.hide_empty
        /\ Len(call[t].slots) = 3
        /\ call[t].slots[1] = call[t].slots[3]
        /\ call[t].slots[1] # call[t].slots[2]
        /\ call[t].slots[2] = <<>>
        /\ call[t].tokens = <<call[t].slots[1], <<>>>>

\* the value an Element resolves to: the first present tag, transformed in order
RefProcess(element, metadata) ==
    LET present == {k \in 1..Len(element.tags) : metadata[element.tags[k]].some}
        first == CHOOSE k \in present : \A j \in present : k <= j
    IN IF present = {} THEN None
       ELSE Some(RefApply(element.transformations, metadata[element.tags[first]].v))

\* C5: process returns the value of the first tag name, in configured order,
\* that the record holds, transformed by every Transformation in configured
\* order, and returns "not found" exactly when the record holds none of them.
C5_Process ==
    \A t \in Threads :
        Assembled(t)
            => /\ Len(call[t].resolved) = Len(formatter.elements)
               /\ \A i \in 1..Len(formatter.elements) :
                     call[t].resolved[i]
                        = RefProcess(formatter.elements[i], call[t].md.val)

C5_Witness ==
    \E t \in Threads :
        /\ Assembled(t)
        /\ \E i \in 1..Len(formatter.elements) :
              LET e == formatter.elements[i]
              IN /\ Len(e.tags) = 2 /\ Len(e.transformations) >= 3
                 /\ call[t].md.val[e.tags[1]].some /\ call[t].md.val[e.tags[2]].some
                 /\ call[t].md.val[e.tags[1]] # call[t].md.val[e.tags[2]]
                 /\ call[t].resolved[i].some
                 /\ call[t].resolved[i].v # call[t].md.val[e.tags[1]].v

\* C6: a configured hook is invoked exactly once per call, after the line-level
\* Transformations, with (line, separator), and the result is the join of its
\* list without the empty strings and the later duplicates, whatever hide_empty
\* and uniquify are; without a hook the result is the transformed line.
C6_Hook ==
    \A t \in Threads :
        /\ call[t].hookCalls <= 1
        /\ call[t].pc \in {"wait_gil", "in_hook"} => call[t].hookCalls = 0
        /\ call[t].pc = "ok"
             => /\ call[t].line
                     = RefApply(formatter.line_transformations, call[t].assembled)
                /\ IF formatter.py_postprocess_fn.some
                   THEN /\ call[t].hookCalls = 1
                        /\ call[t].hookArgs = <<call[t].line, Settings.separator>>
                        /\ call[t].hookRet.ok
                        /\ call[t].result
                             = Some(RefJoin(RefDedup(RefNonEmpty(call[t].hookRet.val)),
                                            Settings.separator))
                   ELSE /\ call[t].hookCalls = 0
                        /\ call[t].result = Some(call[t].line)

C6_Witness ==
    \E t \in Threads :
        /\ call[t].pc = "ok"
        /\ formatter.py_postprocess_fn.some
        /\ ~Settings.hide_empty /\ ~Settings.uniquify
        /\ formatter.line_transformations # <<>>
        /\ call[t].line # call[t].assembled
        /\ Len(call[t].hookRet.val) = 3
        /\ call[t].hookRet.val[1] = call[t].hookRet.val[3]
        /\ call[t].hookRet.val[2] = <<>>
        /\ call[t].result = Some(call[t].hookRet.val[1])

\* what format returns for a record when nothing else runs
RefFormat(fmt, metadata) ==
    LET ls == fmt.line_settings
        vals == [i \in 1..Len(fmt.elements) |->
                    LET v == RefProcess(fmt.elements[i], metadata)
                    IN IF v.some THEN v.v ELSE <<>>]
        kept == IF ls.hide_empty THEN RefNonEmpty(vals) ELSE vals
        toks == IF ls.uniquify THEN RefDedup(kept) ELSE kept
        line == RefApply(fmt.line_transformations, RefJoin(toks, ls.separator))
        ret == Postprocess(fmt.py_postprocess_fn.v, line, ls.separator)
    IN IF ~fmt.py_postprocess_fn.some THEN Ok(line)
       ELSE IF ret.ok THEN Ok(RefJoin(RefDedup(RefNonEmpty(ret.val)), ls.separator))
       ELSE Err("panic")

\* C7: when the metadata record cannot be obtained format returns an error: no
\* string, no Element resolved, no hook call, nothing else changed; and once
\* the caller has taken the error the state is that of a formatter never
\* called, so a later call returns what it would have returned anyway.
C7_MetadataError ==
    [][\A t \in Threads :
          /\ (call[t].pc = "idle" /\ call'[t].pc # "idle" /\ ~call'[t].md.ok)
               => /\ call'[t] = [Idle EXCEPT !.pc = "err", !.md = call'[t].md]
                  /\ formatter' = formatter /\ newResult' = newResult /\ gil' = gil
                  /\ \A u \in Threads \ {t} : call'[u] = call[u]
          /\ call[t].pc = "err"
               => /\ call'[t].pc \in {"err", "idle"}
                  /\ formatter' = formatter /\ newResult' = newResult
                  /\ call'[t].pc = "idle" => call'[t] = Idle
          /\ call'[t].pc = "ok"
               => call'[t].result = Some(RefFormat(formatter, call'[t].md.val).val)]_vars

C7_Witness ==
    \E t \in Threads :
        /\ call[t].pc = "err" /\ ~call[t].md.ok
        /\ newResult = "ok" /\ Len(formatter.elements) = 2
        /\ formatter.py_postprocess_fn.some

\* C8 (as claimed): when the hook fails to execute or returns something that
\* is not a list of strings, format does not panic: it returns the pre-hook line.
C8_AsClaimed ==
    \A t \in Threads :
        (call[t].hookCalls = 1 /\ ~call[t].hookRet.ok)
            => call[t].pc = "ok" /\ call[t].result = Some(call[t].line)

\* C9 (as claimed): a Formatter exists only for a valid configuration: every
\* pattern compiles, every case is known and every Element names a tag.
C9_AsClaimed ==
    newResult = "ok"
        => /\ \A i \in 1..Len(formatter.elements) :
                 /\ formatter.elements[i].tags # <<>>
                 /\ \A k \in 1..Len(formatter.elements[i].transformations) :
                       LET tr == formatter.elements[i].transformations[k]
                       IN /\ tr.kind = "RegexReplace" => RegexCompiles(tr.re)
                          /\ tr.kind = "ChangeCase"
                               => tr.from # CaseUnknown /\ tr.to # CaseUnknown
           /\ \A k \in 1..Len(formatter.line_transformations) :
                 RegexCompiles(formatter.line_transformations[k].re)

\* C10: in every interleaving of format calls on one shared Formatter no call
\* changes the Formatter, no two hook invocations run at the same time (each
\* runs holding the interpreter lock), and each call returns what it returns
\* when run alone on the same metadata.
C10_Concurrent ==
    [][/\ newResult = "ok" => formatter' = formatter /\ newResult' = newResult
       /\ \A t, u \in Threads :
             (call'[t].pc = "in_hook" /\ call'[u].pc = "in_hook") => t = u
       /\ \A t \in Threads : call'[t].pc = "in_hook" <=> gil' = t
       /\ \A t \in Threads :
             /\ call'[t].pc = "ok"
                  => /\ RefFormat(formatter', call'[t].md.val).ok
                     /\ call'[t].result
                          = Some(RefFormat(formatter', call'[t].md.val).val)
             /\ call'[t].pc = "panic"
                  => ~RefFormat(formatter', call'[t].md.val).ok]_vars

C10_Witness ==
    \E t, u \in Threads :
        /\ t # u
        /\ call[t].pc = "in_hook"
        /\ call[u].pc = "wait_gil"
        /\ call[t].md # call[u].md
        /\ gil = t

====
